---- MODULE Spec2Model ----
(***************************************************************************)
(* A model of src/components/FlightMetrics.tsx: the FlightMetrics          *)
(* component (the metric list derived from one flight-state snapshot and   *)
(* what is rendered from it) and the NavBar component (formatDuration, the *)
(* progress percent, the Export GPX and Reset Data handlers).              *)
(*                                                                         *)
(* JavaScript values are records tagged by kind.  A JavaScript number n is *)
(* Num(n * Scale): a fixed-point integer in units of 1/Scale, so that      *)
(* Math.floor, Math.abs, % and the multiplications of the source are exact *)
(* on every input the model draws.                                         *)
(* The degree sign of the unit strings is written "deg".                   *)
(***************************************************************************)
EXTENDS Integers, Sequences, FiniteSets, TLC

VARIABLES
    data,            \* FlightMetrics prop: the flight-state snapshot
    loading,         \* FlightMetrics prop
    metrics,         \* const metrics of the last FlightMetrics render
    view,            \* what that render put on screen, one entry per metric
    flightDuration,  \* NavBar prop (minutes)
    timeToGo,        \* NavBar prop (minutes)
    elapsed,         \* const elapsed of the last NavBar render
    percent,         \* const percent of the last NavBar render
    labels,          \* the three formatDuration texts of the last NavBar render
    flightNumber,    \* NavBar prop
    flightData,      \* NavBar prop: the accumulated snapshots
    open,            \* NavBar state: useState(false)
    gpxCalls,        \* the arguments of every convertToGPX call so far
    downloads,       \* the arguments of every downloadGPX call so far
    resetCalls,      \* how many times resetData was called
    lastOp,          \* trace: the handler that ran last
    tick             \* trace: flips at every handler invocation

metricsVars == <<data, loading, metrics, view>>
progressVars == <<flightDuration, timeToGo, elapsed, percent, labels>>
menuVars == <<flightNumber, flightData, open, gpxCalls, downloads, resetCalls, lastOp, tick>>
vars == <<metricsVars, progressVars, menuVars>>

---------------------------------------------------------------------------
(* JavaScript values *)

\* Fixed-point resolution: four decimal digits.
Scale == 10 * 1000

Null == [kind |-> "null"]
Undefined == [kind |-> "undefined"]
NaN == [kind |-> "NaN"]
Num(x) == [kind |-> "number", val |-> x]
Str(s) == [kind |-> "string", str |-> s]

\* The number w.dddd, dddd in ten-thousandths.
Dec(w, dddd) == w * Scale + dddd

IsNum(v) == v.kind = "number"

\* typeof v: NaN is of type "number".
TypeOf(v) == IF v.kind = "NaN" THEN "number" ELSE v.kind

\* ToBoolean(v): the test of `v ? a : b`, `v || b` and `!!v`.
Truthy(v) ==
    CASE v.kind = "number" -> v.val # 0
      [] v.kind = "string" -> v.str # ""
      [] OTHER -> FALSE

MathAbs(x) == IF x < 0 THEN -x ELSE x

\* Math.floor on a fixed-point number (\div rounds towards minus infinity).
MathFloor(x) == (x \div Scale) * Scale

\* x % 1 for x >= 0.
Mod1(x) == x % Scale

\* The integer nearest to num/den (num >= 0, den > 0), a tie going up.
RoundHalfUp(num, den) == (2 * num + den) \div (2 * den)

\* (x * mul / div).toFixed(0) for a fixed-point x and the decimal constant
\* mul/div: the digits of the nearest integer, a tie going away from zero, after
\* a "-" when the product is negative.  The product is split into the whole and
\* the fractional part of |x| so that no intermediate exceeds 32 bits.
ToFixed0(x, mul, div) ==
    LET a == MathAbs(x)
        whole == (a \div Scale) * mul
        rest == (whole % div) * Scale + (a % Scale) * mul
        n == (whole \div div) + RoundHalfUp(rest, div * Scale)
    IN (IF x < 0 THEN "-" ELSE "") \o ToString(n)

---------------------------------------------------------------------------
(* @/lib/utils: the conversions FlightMetrics imports *)

\* knotsToKmh(v): v * 1.852, to 0 decimals.
knotsToKmh(v) == Str(ToFixed0(v.val, 1852, 1000))

\* feetToMeters(v): v * 0.3048, to 0 decimals.
feetToMeters(v) == Str(ToFixed0(v.val, 3048, 10000))

CompassPoints == <<"N", "NE", "E", "SE", "S", "SW", "W", "NW">>

\* getCompassDirection(deg): deg normalised into [0, 360), then one of eight
\* equal sectors centred on the compass points.
getCompassDirection(v) ==
    LET norm == v.val % (360 * Scale)
        sector == ((2 * norm + 45 * Scale) \div (90 * Scale)) % 8
    IN Str(CompassPoints[sector + 1])

---------------------------------------------------------------------------
(* FlightMetrics *)

\* const distanceToGo: floored unless null or undefined.
distanceToGo(d) ==
    IF d.distanceToGo # Null /\ d.distanceToGo # Undefined
    THEN Num(MathFloor(d.distanceToGo.val))
    ELSE Null

GroundSpeedMetric(d) ==
    [title |-> "Ground Speed",
     value |-> Num(MathFloor(d.groundspeed.val)),
     unit |-> "knots",
     secondaryValue |-> knotsToKmh(d.groundspeed),
     secondaryUnit |-> "km/h",
     places |-> <<1000, 100, 10, 1>>]

AltitudeMetric(d) ==
    [title |-> "Altitude",
     value |-> Num(MathFloor(d.altitude.val)),
     unit |-> "ft",
     secondaryValue |-> feetToMeters(d.altitude),
     secondaryUnit |-> "m",
     places |-> <<10000, 1000, 100, 10, 1>>]

\* data.heading ? Math.abs(Math.floor(data.heading)) : null
HeadingValue(d) ==
    IF Truthy(d.heading) THEN Num(MathAbs(MathFloor(d.heading.val))) ELSE Null

\* data.heading ? getCompassDirection(data.heading) : null
HeadingSecondary(d) ==
    IF Truthy(d.heading) THEN getCompassDirection(d.heading) ELSE Null

HeadingMetric(d) ==
    [title |-> "Heading",
     value |-> HeadingValue(d),
     unit |-> "deg",
     secondaryValue |-> HeadingSecondary(d),
     secondaryUnit |-> "",
     places |-> <<100, 10, 1>>]

\* distanceToGo ? (distanceToGo * 1.852).toFixed(0) : null
DistanceSecondary(d) ==
    IF Truthy(distanceToGo(d))
    THEN Str(ToFixed0(distanceToGo(d).val, 1852, 1000))
    ELSE Null

DistanceToGoMetric(d) ==
    [title |-> "Distance To Go",
     value |-> distanceToGo(d),
     unit |-> "nm",
     secondaryValue |-> DistanceSecondary(d),
     secondaryUnit |-> "km",
     places |-> <<1000, 100, 10, 1>>]

\* Math.floor(Math.abs(v))
wholeValue(v) == Num(MathFloor(MathAbs(v.val)))

\* A faulty variant of decimalValue: the three digits rounded instead of truncated.
decimalValueRounded(v) ==
    Num(MathFloor(Mod1(MathAbs(v.val)) * 1000 + Scale \div 2))

\* Math.floor((Math.abs(v) % 1) * 1000)
decimalValue(v) == Num(MathFloor(Mod1(MathAbs(v.val)) * 1000))

\* v >= 0 ? pos : neg
Hemisphere(v, pos, neg) == IF v.val >= 0 THEN pos ELSE neg

LatitudeMetric(d) ==
    [title |-> "Latitude",
     wholeValue |-> wholeValue(d.latitude),
     decimalValue |-> decimalValue(d.latitude),
     unit |-> Hemisphere(d.latitude, "degN", "degS"),
     wholePlaces |-> <<100, 10, 1>>,
     decimalPlaces |-> <<100, 10, 1>>,
     isCoordinate |-> TRUE]

LongitudeMetric(d) ==
    [title |-> "Longitude",
     wholeValue |-> wholeValue(d.longitude),
     decimalValue |-> decimalValue(d.longitude),
     unit |-> Hemisphere(d.longitude, "degE", "degW"),
     wholePlaces |-> <<100, 10, 1>>,
     decimalPlaces |-> <<100, 10, 1>>,
     isCoordinate |-> TRUE]

\* A faulty variant of MetricList: a metric without a value is left out of the list.
MetricListAvailableOnly(d) ==
    SelectSeq(<<GroundSpeedMetric(d), AltitudeMetric(d), HeadingMetric(d),
                DistanceToGoMetric(d), LatitudeMetric(d), LongitudeMetric(d)>>,
              LAMBDA m : ~("value" \in DOMAIN m /\ m.value = Null))

\* const metrics: Metric[] = [ ... ]
MetricList(d) ==
    <<GroundSpeedMetric(d), AltitudeMetric(d), HeadingMetric(d),
      DistanceToGoMetric(d), LatitudeMetric(d), LongitudeMetric(d)>>

\* metric.isCoordinate: absent on a standard metric, hence falsy.
IsCoordinate(m) == "isCoordinate" \in DOMAIN m /\ m.isCoordinate

\* The parenthesised line under a metric: !loading && !!metric.secondaryValue
SecondaryView(m, l) ==
    LET sv == IF "secondaryValue" \in DOMAIN m THEN m.secondaryValue ELSE Undefined
    IN IF ~l /\ Truthy(sv) THEN <<sv.str, m.secondaryUnit>> ELSE <<>>

\* One element of metrics.map(...): the counters or the Not Available text.
MetricView(m, l) ==
    IF IsCoordinate(m)
    THEN [title |-> m.title,
          primary |-> <<"coordinate", m.wholeValue.val, m.decimalValue.val, m.unit>>,
          secondary |-> SecondaryView(m, l)]
    ELSE [title |-> m.title,
          primary |-> IF m.value # Undefined /\ m.value # Null
                      THEN <<"counter", m.value.val, m.unit>>
                      ELSE <<"Not Available ()">>,
          secondary |-> SecondaryView(m, l)]

ViewOf(ms, l) == [i \in 1..Len(ms) |-> MetricView(ms[i], l)]

---------------------------------------------------------------------------
(* NavBar: formatDuration, elapsed, percent *)

\* The digits after the decimal point of a fixed-point fraction f < 10 * unit,
\* trailing zeros dropped.
RECURSIVE FracDigits(_, _)
FracDigits(f, unit) ==
    IF f = 0 THEN ""
    ELSE ToString(f \div unit) \o FracDigits(f % unit, unit \div 10)

\* `${x}` for a number x: Number::toString.
NumToString(x) ==
    LET a == MathAbs(x)
    IN (IF x < 0 THEN "-" ELSE "")
       \o ToString(a \div Scale)
       \o (IF a % Scale = 0 THEN "" ELSE "." \o FracDigits(a % Scale, Scale \div 10))

\* A faulty variant of ClampMinutes: negative minutes are not clamped.
ClampMinutesMissing(x) == x

\* Math.max(0, mins)
ClampMinutes(x) == IF x < 0 THEN 0 ELSE x

formatDuration(mins) ==
    IF TypeOf(mins) # "number" \/ mins = NaN THEN "N/A"
    ELSE LET m0 == ClampMinutes(mins.val)
             h == MathFloor(m0 \div 60)
             m == m0 % (60 * Scale)
         IN (IF h > 0 THEN NumToString(h) \o " hr " ELSE "")
            \o NumToString(m) \o " min"

BothNumbers(fd, ttg) == TypeOf(fd) = "number" /\ TypeOf(ttg) = "number"

\* flightDuration - timeToGo on two values of type number.
Minus(a, b) == IF a = NaN \/ b = NaN THEN NaN ELSE Num(a.val - b.val)

\* const elapsed
Elapsed(fd, ttg) == IF BothNumbers(fd, ttg) THEN Minus(fd, ttg) ELSE Undefined

RECURSIVE GCD(_, _)
GCD(a, b) == IF b = 0 THEN a ELSE GCD(b, a % b)

\* The percent n/d (d > 0), kept as an exact fraction in lowest terms.
Ratio(n, d) ==
    LET g == GCD(MathAbs(n), d)
    IN [kind |-> "ratio", num |-> n \div g, den |-> d \div g]

\* A faulty variant of Clamp0to100: only the upper clamp is applied.
ClampUpperOnly(x) ==
    IF x = NaN THEN NaN
    ELSE IF x.num > 100 * x.den THEN Ratio(100, 1)
    ELSE x

\* Math.max(0, Math.min(100, x)) for x = num/den; NaN passes through both.
Clamp0to100(x) ==
    IF x = NaN THEN NaN
    ELSE IF x.num > 100 * x.den THEN Ratio(100, 1)
    ELSE IF x.num < 0 THEN Ratio(0, 1)
    ELSE x

\* const percent; `flightDuration > 0` is false of NaN.
Percent(fd, ttg) ==
    IF BothNumbers(fd, ttg) /\ fd # NaN /\ fd.val > 0
    THEN Clamp0to100(IF ttg = NaN THEN NaN
                     ELSE Ratio((fd.val - ttg.val) * 100, fd.val))
    ELSE Ratio(0, 1)

\* The three duration texts of the progress section.
Labels(fd, ttg) ==
    [duration |-> formatDuration(fd),
     elapsed |-> formatDuration(Elapsed(fd, ttg)),
     toGo |-> formatDuration(ttg)]

---------------------------------------------------------------------------
(* NavBar: the Export GPX and Reset Data handlers *)

\* @/utils/gpx convertToGPX: a GPX document with one track point per snapshot.
convertToGPX(fd) == [kind |-> "gpx", trkpts |-> fd]

\* @/utils/gpx downloadGPX(content, name): hands one file to the browser.
downloadGPX(log, content, name) == Append(log, [content |-> content, filename |-> name])

\* A faulty variant of FileName: flightNumber ?? "flight", which keeps the empty string.
FileNameNullish(fn) == IF fn = Undefined \/ fn = Null THEN "flight" ELSE fn.str

\* flightNumber || "flight"
FileName(fn) == IF Truthy(fn) THEN fn.str ELSE "flight"

---------------------------------------------------------------------------
(* The inputs *)

MaxWhole == 1
MaxHours == 2
MaxPoints == 2
MaxCalls == 2

\* Magnitudes w and w.9999 for the whole parts up to MaxWhole.
Magnitudes == {Dec(w, f) : w \in 0..MaxWhole, f \in {0, Scale - 1}}
Signed == Magnitudes \cup {-x : x \in Magnitudes}

\* Speed and altitude arrive together: on the ground, and in cruise.
MotionValues ==
    {<<Num(0), Num(0)>>, <<Num(Dec(450, 7000)), Num(Dec(35000, 4000))>>}
HeadingValues ==
    {Null, Undefined}
    \cup {Num(x) : x \in Magnitudes \cup {Dec(360, 0), -Dec(10, 0), -Dec(10, 5000)}}
DistanceValues ==
    {Null, Undefined}
    \cup {Num(x) : x \in Magnitudes \cup {Dec(0, 5000), Dec(123, 7000)}}
\* A position fix sets latitude and longitude together.
PositionValues ==
    {<<Num(x), Num(-x)>> : x \in Signed}
    \cup {<<Num(-Dec(33, 8765)), Num(Dec(151, 2093))>>,
          <<Num(Dec(90, 0)), Num(Dec(180, 0))>>,
          <<Num(-Dec(90, 0)), Num(-Dec(180, 0))>>}

\* Minutes: absent, non-numeric, NaN, negative, fractional, and h hours m minutes.
MinuteValues ==
    {Undefined, Null, NaN, Str("90")}
    \cup {Num(x) : x \in {-Dec(5, 0), -Dec(0, 5000), Dec(90, 5000)}}
    \cup {Num(Dec(h * 60 + m, 0)) : h \in 0..MaxHours, m \in {0, 1, 59}}

FlightNumbers == {Undefined, Str(""), Str("UA123")}

\* The snapshots that differ from d in one telemetry reading.
NextSnapshots(d) ==
    {[d EXCEPT !.groundspeed = v[1], !.altitude = v[2]] : v \in MotionValues}
    \cup {[d EXCEPT !.heading = v] : v \in HeadingValues}
    \cup {[d EXCEPT !.distanceToGo = v] : v \in DistanceValues}
    \cup {[d EXCEPT !.latitude = v[1], !.longitude = v[2]] : v \in PositionValues}

FirstSnapshot ==
    [groundspeed |-> Num(0), altitude |-> Num(0), heading |-> Null,
     distanceToGo |-> Null, latitude |-> Num(0), longitude |-> Num(0)]

---------------------------------------------------------------------------
(* The components *)

Init ==
    /\ data = FirstSnapshot
    /\ loading = TRUE
    /\ metrics = MetricList(FirstSnapshot)
    /\ view = ViewOf(MetricList(FirstSnapshot), TRUE)
    /\ flightDuration = Undefined
    /\ timeToGo = Undefined
    /\ elapsed = Elapsed(Undefined, Undefined)
    /\ percent = Percent(Undefined, Undefined)
    /\ labels = Labels(Undefined, Undefined)
    /\ flightNumber = Undefined
    /\ flightData = <<>>
    /\ open = FALSE
    /\ gpxCalls = <<>>
    /\ downloads = <<>>
    /\ resetCalls = 0
    /\ lastOp = "mount"
    /\ tick = 0

\* One render of FlightMetrics with props { data: d, loading: l }.
FlightMetrics(d, l) ==
    /\ data' = d
    /\ loading' = l
    /\ metrics' = MetricList(d)
    /\ view' = ViewOf(MetricList(d), l)
    /\ UNCHANGED <<progressVars, menuVars>>

\* A telemetry update arrives and the component renders again.
NewFlightData == \E d \in NextSnapshots(data) : FlightMetrics(d, loading)

\* The loading flag changes and the component renders again.
LoadingChanged == FlightMetrics(data, ~loading)

NextMetrics == NewFlightData \/ LoadingChanged

SpecMetrics == Init /\ [][NextMetrics]_vars

\* One render of the NavBar progress section with new duration props.
NavBarProgress(fd, ttg) ==
    /\ flightDuration' = fd
    /\ timeToGo' = ttg
    /\ elapsed' = Elapsed(fd, ttg)
    /\ percent' = Percent(fd, ttg)
    /\ labels' = Labels(fd, ttg)
    /\ UNCHANGED <<metricsVars, menuVars>>

FlightDurationChanged == \E fd \in MinuteValues : NavBarProgress(fd, timeToGo)

TimeToGoChanged == \E ttg \in MinuteValues : NavBarProgress(flightDuration, ttg)

NextProgress == FlightDurationChanged \/ TimeToGoChanged

SpecProgress == Init /\ [][NextProgress]_vars

\* useFlightData().resetData: the context clears the accumulated snapshots.
resetData ==
    /\ resetCalls' = resetCalls + 1
    /\ flightData' = <<>>

\* A faulty variant of handleExport: the early return on an empty flightData is missing.
handleExportUnguarded ==
    /\ lastOp' = "handleExport"
    /\ tick' = 1 - tick
    /\ Len(downloads) < MaxCalls
    /\ gpxCalls' = Append(gpxCalls, flightData)
    /\ downloads' = downloadGPX(downloads, convertToGPX(flightData),
                                FileName(flightNumber))
    /\ open' = FALSE
    /\ UNCHANGED <<flightNumber, flightData, resetCalls>>
    /\ UNCHANGED <<metricsVars, progressVars>>

\* const handleExport
handleExport ==
    /\ lastOp' = "handleExport"
    /\ tick' = 1 - tick
    /\ IF Len(flightData) = 0
       THEN UNCHANGED <<gpxCalls, downloads, open>>
       ELSE /\ Len(downloads) < MaxCalls
            /\ gpxCalls' = Append(gpxCalls, flightData)
            /\ downloads' = downloadGPX(downloads, convertToGPX(flightData),
                                        FileName(flightNumber))
            /\ open' = FALSE
    /\ UNCHANGED <<flightNumber, flightData, resetCalls>>
    /\ UNCHANGED <<metricsVars, progressVars>>

\* A faulty variant of handleReset: the menu is left as it was.
handleResetLeavesMenu ==
    /\ resetCalls < MaxCalls
    /\ lastOp' = "handleReset"
    /\ tick' = 1 - tick
    /\ resetData
    /\ UNCHANGED <<flightNumber, open, gpxCalls, downloads>>
    /\ UNCHANGED <<metricsVars, progressVars>>

\* const handleReset
handleReset ==
    /\ resetCalls < MaxCalls
    /\ lastOp' = "handleReset"
    /\ tick' = 1 - tick
    /\ resetData
    /\ open' = FALSE
    /\ UNCHANGED <<flightNumber, gpxCalls, downloads>>
    /\ UNCHANGED <<metricsVars, progressVars>>

\* DropdownMenu onOpenChange={setOpen}
onOpenChange ==
    /\ \E b \in BOOLEAN : open' = b
    /\ lastOp' = "onOpenChange"
    /\ UNCHANGED <<flightNumber, flightData, gpxCalls, downloads, resetCalls, tick>>
    /\ UNCHANGED <<metricsVars, progressVars>>

\* The context accumulates one more snapshot.
SnapshotAccumulated ==
    /\ Len(flightData) < MaxPoints
    /\ flightData' = Append(flightData, Len(flightData) + 1)
    /\ lastOp' = "props"
    /\ UNCHANGED <<flightNumber, open, gpxCalls, downloads, resetCalls, tick>>
    /\ UNCHANGED <<metricsVars, progressVars>>

\* The flightNumber prop changes.
FlightNumberChanged ==
    /\ \E fn \in FlightNumbers : flightNumber' = fn
    /\ lastOp' = "props"
    /\ UNCHANGED <<flightData, open, gpxCalls, downloads, resetCalls, tick>>
    /\ UNCHANGED <<metricsVars, progressVars>>

NextMenu ==
    \/ handleExport
    \/ handleReset
    \/ onOpenChange
    \/ SnapshotAccumulated
    \/ FlightNumberChanged

SpecMenu == Init /\ [][NextMenu]_vars

---------------------------------------------------------------------------
(* FlightMetrics: the properties *)

Absent(v) == v = Null \/ v = Undefined

\* C1: the Heading metric is unavailable (value and secondaryValue null, the
\* Not Available text on screen) if and only if data.heading is null or
\* absent; a heading of 0 is a number, not "no data".
C1_HeadingUnavailableIffAbsent ==
    /\ (metrics[3].value = Null /\ metrics[3].secondaryValue = Null)
           <=> Absent(data.heading)
    /\ (view[3].primary = <<"Not Available ()">>) <=> Absent(data.heading)

\* C2: for every non-null heading h the Heading value is floor(abs(h)): the
\* absolute value first, then the floor.
C2_HeadingIsFloorOfAbs ==
    ~Absent(data.heading)
        => metrics[3].value = Num(MathFloor(MathAbs(data.heading.val)))

\* C3: Distance To Go is null/null when distanceToGo is null or undefined;
\* otherwise the value is floor(distanceToGo) and the secondary value is
\* floor(distanceToGo) * 1.852 to 0 decimals, never null.
C3_DistanceToGo ==
    IF Absent(data.distanceToGo)
    THEN metrics[4].value = Null /\ metrics[4].secondaryValue = Null
    ELSE /\ metrics[4].value = Num(MathFloor(data.distanceToGo.val))
         /\ metrics[4].secondaryValue # Null
         /\ metrics[4].secondaryValue
                = Str(ToFixed0(MathFloor(data.distanceToGo.val), 1852, 1000))

\* w is floor(|v|) and t is floor((|v| mod 1) * 1000), stated by the bounds
\* that define a floor; the unit is pos exactly when v >= 0.
CoordinateOk(v, m, pos, neg) ==
    LET a == IF v.val < 0 THEN 0 - v.val ELSE v.val
        w == m.wholeValue.val
        t == m.decimalValue.val
    IN /\ w % Scale = 0 /\ w >= 0
       /\ w <= a /\ a < w + Scale
       /\ t % Scale = 0
       /\ t \div Scale \in 0..999
       /\ t <= (a - w) * 1000 /\ (a - w) * 1000 < t + Scale
       /\ (m.unit = pos) <=> (v.val >= 0)
       /\ (m.unit = neg) <=> (v.val < 0)

\* C4: for latitude in [-90, 90] and longitude in [-180, 180], wholeValue is
\* floor(|v|) >= 0, decimalValue is floor((|v| mod 1) * 1000), an integer in
\* 0..999 obtained by truncation, and the unit is N/E exactly when v >= 0 and
\* S/W exactly when v < 0.
C4_Coordinates ==
    /\ CoordinateOk(data.latitude, metrics[5], "degN", "degS")
    /\ CoordinateOk(data.longitude, metrics[6], "degE", "degW")

\* Latitude -33.8765 is shown as 33 and 876, degrees south; longitude
\* 151.2093 as 151 and 209, degrees east.
C4_Witness ==
    /\ data.latitude = Num(-Dec(33, 8765))
    /\ metrics[5].wholeValue = Num(Dec(33, 0))
    /\ metrics[5].decimalValue = Num(Dec(876, 0))
    /\ metrics[5].unit = "degS"
    /\ metrics[6].wholeValue = Num(Dec(151, 0))
    /\ metrics[6].decimalValue = Num(Dec(209, 0))
    /\ metrics[6].unit = "degE"

MetricTitles ==
    <<"Ground Speed", "Altitude", "Heading", "Distance To Go", "Latitude", "Longitude">>

SixInOrder ==
    /\ Len(metrics) = 6
    /\ \A i \in 1..6 : metrics[i].title = MetricTitles[i]
    /\ Len(view) = 6
    /\ \A i \in 1..6 : view[i].title = MetricTitles[i]
    /\ Absent(data.heading) => metrics[3].value = Null
    /\ Absent(data.distanceToGo) => metrics[4].value = Null

\* C8: whatever fields are null and whatever the loading flag, the metric list
\* has exactly six entries in the order Ground Speed, Altitude, Heading,
\* Distance To Go, Latitude, Longitude, an unavailable metric keeping its
\* place with a null value; and a render of the same snapshot gives the
\* same list.
C8_SixMetricsInOrder ==
    /\ []SixInOrder
    /\ [][data' = data => metrics' = metrics]_vars

\* Heading and distance both unavailable, shown after loading ended.
C8_Witness ==
    /\ Absent(data.heading) /\ Absent(data.distanceToGo)
    /\ ~loading
    /\ data.latitude # Num(0)
    /\ metrics[3].value = Null /\ metrics[4].value = Null
    /\ metrics[4].title = "Distance To Go"
    /\ view[3].primary = <<"Not Available ()">>

---------------------------------------------------------------------------
(* NavBar: the properties *)

\* What formatDuration is to return for mins: "N/A" unless mins is a number;
\* otherwise, with negatives clamped to 0, h whole hours and 0 <= m < 60
\* remaining minutes, "<h> hr <m> min" with the hr segment only when h > 0.
DurationText(mins, text) ==
    IF mins.kind # "number" THEN text = "N/A"
    ELSE LET c == IF mins.val < 0 THEN 0 ELSE mins.val
             h == c \div (60 * Scale)
             m == c - h * 60 * Scale
         IN /\ 0 <= m /\ m < 60 * Scale
            /\ text = (IF h > 0 THEN ToString(h) \o " hr " ELSE "")
                          \o NumToString(m) \o " min"

\* C7: formatDuration returns "N/A" for an absent, non-numeric or NaN input and
\* otherwise clamps negatives to 0, so formatDuration(-5) = formatDuration(0) =
\* "0 min", and renders h = floor(mins/60) and m = mins mod 60, 0 <= m < 60,
\* with the hr segment present if and only if h > 0.
C7_FormatDuration ==
    /\ DurationText(flightDuration, labels.duration)
    /\ DurationText(timeToGo, labels.toGo)
    /\ flightDuration \in {Num(-Dec(5, 0)), Num(0)} => labels.duration = "0 min"
    /\ timeToGo \in {Undefined, Null, NaN, Str("90")} => labels.toGo = "N/A"

\* A negative duration beside a time to go of more than two hours.
C7_Witness ==
    /\ flightDuration = Num(-Dec(5, 0))
    /\ labels.duration = "0 min"
    /\ timeToGo = Num(Dec(121, 0))
    /\ labels.toGo = "2 hr 1 min"

\* C9: for flightDuration and timeToGo each absent or a number, percent lies in
\* [0, 100]; it is 0 when either is absent or flightDuration <= 0, 0 when
\* timeToGo >= flightDuration > 0, 100 when timeToGo <= 0 < flightDuration and
\* otherwise (flightDuration - timeToGo) / flightDuration * 100; the elapsed
\* text is formatDuration(flightDuration - timeToGo), never a negative duration.
C9_Percent ==
    LET fd == flightDuration
        ttg == timeToGo
        missing == ~IsNum(fd) \/ ~IsNum(ttg)
    IN (fd # NaN /\ ttg # NaN) =>
        /\ percent.kind = "ratio"
        /\ percent.den > 0
        /\ 0 <= percent.num /\ percent.num <= 100 * percent.den
        /\ (missing \/ fd.val <= 0) => percent.num = 0
        /\ missing => labels.elapsed = "N/A"
        /\ ~missing =>
            /\ DurationText(Num(fd.val - ttg.val), labels.elapsed)
            /\ ttg.val > fd.val => labels.elapsed = "0 min"
            /\ (fd.val > 0 /\ ttg.val >= fd.val) => percent.num = 0
            /\ (fd.val > 0 /\ ttg.val <= 0) => percent.num = 100 * percent.den
            /\ (fd.val > 0 /\ 0 < ttg.val /\ ttg.val < fd.val) =>
                LET g == GCD(fd.val, fd.val - ttg.val)
                IN percent.num * (fd.val \div g)
                       = percent.den * ((fd.val - ttg.val) \div g) * 100

\* 61 of 120 minutes flown: 305/6 percent.
C9_Witness ==
    /\ flightDuration = Num(Dec(120, 0))
    /\ timeToGo = Num(Dec(59, 0))
    /\ percent = [kind |-> "ratio", num |-> 305, den |-> 6]
    /\ labels.elapsed = "1 hr 1 min"

ExportStep == tick' # tick /\ lastOp' = "handleExport"
ResetStep == tick' # tick /\ lastOp' = "handleReset"

\* C5: handleExport on an empty flightData is a no-op: no convertToGPX, no
\* downloadGPX, no state change, the menu's open flag included; and
\* convertToGPX and downloadGPX are only ever called with a non-empty
\* flightData.
C5_EmptyExportIsNoOp ==
    /\ [](/\ \A i \in 1..Len(gpxCalls) : gpxCalls[i] # <<>>
          /\ \A i \in 1..Len(downloads) : downloads[i].content.trkpts # <<>>
          /\ Len(gpxCalls) = Len(downloads))
    /\ [][(ExportStep /\ flightData = <<>>) =>
             UNCHANGED <<flightNumber, flightData, open, gpxCalls, downloads,
                         resetCalls>>]_vars

\* Export GPX was invoked on an empty flightData while the menu was open.
C5_Witness ==
    /\ lastOp = "handleExport"
    /\ flightData = <<>>
    /\ open
    /\ downloads = <<>>

\* C6: handleExport on a non-empty flightData calls downloadGPX exactly once,
\* with convertToGPX(flightData) and the file name flightNumber, or "flight"
\* when flightNumber is absent or the empty string.
C6_ExportDownloadsOnce ==
    [][(ExportStep /\ flightData # <<>>) =>
          /\ gpxCalls' = Append(gpxCalls, flightData)
          /\ Len(downloads') = Len(downloads) + 1
          /\ SubSeq(downloads', 1, Len(downloads)) = downloads
          /\ downloads'[Len(downloads')] =
                [content |-> convertToGPX(flightData),
                 filename |-> IF flightNumber = Undefined \/ flightNumber = Str("")
                              THEN "flight" ELSE flightNumber.str]]_vars

\* Two exports: one with the empty flight number, one as UA123.
C6_Witness ==
    /\ Len(downloads) = 2
    /\ downloads[1].filename = "flight"
    /\ downloads[1].content = convertToGPX(<<1>>)
    /\ downloads[2].filename = "UA123"
    /\ lastOp = "handleExport"
    /\ flightNumber = Str("")

\* C10: every handleReset calls resetData exactly once, whatever flightData and
\* the menu are, and changes nothing else than closing the menu; open is false
\* right after every handleReset and after every handleExport on non-empty
\* data; handleExport never calls resetData.
C10_ResetDelegates ==
    [][/\ ResetStep =>
            /\ resetCalls' = resetCalls + 1
            /\ open' = FALSE
            /\ UNCHANGED <<flightNumber, gpxCalls, downloads>>
       /\ (ExportStep /\ flightData # <<>>) => open' = FALSE
       /\ ExportStep => UNCHANGED <<resetCalls, flightData>>
       /\ resetCalls' # resetCalls => ResetStep]_vars

\* A reset after an export, with data accumulated again since.
C10_Witness ==
    /\ resetCalls = 2
    /\ Len(downloads) = 1
    /\ lastOp = "handleReset"
    /\ ~open
    /\ flightData = <<>>

====
